---- MODULE Spec2Model ----
(***************************************************************************)
(* Steady-state PEM fuel cell model (fuel_Cell_simulator.py).              *)
(*                                                                         *)
(* The program computes with IEEE doubles.  The model computes with exact  *)
(* integers on fixed grids and keeps the non-finite doubles (nan, +inf,    *)
(* -inf) as explicit values:                                               *)
(*   current density  1 A/cm^2   = IScale units  (IScale = 99 * 10^6, so   *)
(*                                 that the 100-point linspace is exact)   *)
(*   voltage, power   1 V, 1 W/cm^2 = VScale units (microvolt, microwatt)  *)
(*   pressure         1 atm      = PScale units                            *)
(*   alpha            1          = AScale units                            *)
(*   R, resistance    1          = RScale units                            *)
(*   temperature      kelvin, whole numbers                                *)
(*   np.log           result in LScale units (2^15)                        *)
(* A double is a record [c, v]: c = 0 finite with value v, c = 1 +inf,     *)
(* c = -1 -inf, c = 2 nan.  Products and quotients round toward -infinity  *)
(* on the grid where the double rounds to nearest.                         *)
(*                                                                         *)
(* A current density is a finite double, held as one integer.  Below       *)
(* HugeBase the integer counts IScale units (the fine grid, to about       *)
(* 10 A/cm^2).  HugeBase + b, b >= 1, is the double b * 2^41 A/cm^2: there  *)
(* neighbouring doubles are 2^-12 A/cm^2 or more apart, so subtracting     *)
(* 1e-4 rounds back to the same double.  The order of the integers is the  *)
(* order of the doubles.  calc_concentration_loss is modelled on both      *)
(* ranges, the other calculators and the sweep on the fine grid.           *)
(***************************************************************************)
EXTENDS Integers, Sequences, FiniteSets, TLC

VARIABLES
    pc,      \* where the run is: start, constructed, swept, plotted, printed, shown, failed
    my_fc,   \* the FuelCellParameters object
    ret,     \* the most recent call: its function, its argument, the value returned
    result,  \* what simulate_fuel_cell returned (the script's i, v, p, losses)
    idx,     \* the index the breakdown is printed at (1-based; 0 before it is computed)
    report,  \* the report steps done so far, in order
    err      \* the exception that ended the run, "none" while it runs

vars == <<pc, my_fc, ret, result, idx, report, err>>

(***************************************************************************)
(* Grids.                                                                  *)
(***************************************************************************)
NumSamples == 100
IScale == (NumSamples - 1) * 1000000
VScale == 1000 * 1000
PScale == 100 * 100
AScale == 10 * 10
RScale == 10 * 100
LScale == 2 ^ 15

(***************************************************************************)
(* IEEE doubles.                                                           *)
(***************************************************************************)
Fin(x) == [c |-> 0, v |-> x]
NaN  == [c |-> 2, v |-> 0]
PInf == [c |-> 1, v |-> 0]
NInf == [c |-> -1, v |-> 0]

IsFin(a) == a.c = 0
IsNaN(a) == a.c = 2
\* sign of a double that is not nan: -1, 0, 1
Sgn(a) == IF a.c = 0 THEN (IF a.v > 0 THEN 1 ELSE IF a.v < 0 THEN -1 ELSE 0) ELSE a.c

FNeg(a) == IF a.c = 0 THEN Fin(-a.v) ELSE IF a.c = 2 THEN NaN ELSE [c |-> -a.c, v |-> 0]

FAdd(a, b) ==
    IF a.c = 2 \/ b.c = 2 THEN NaN
    ELSE IF a.c = 0 /\ b.c = 0 THEN Fin(a.v + b.v)
    ELSE IF a.c = 0 THEN b
    ELSE IF b.c = 0 THEN a
    ELSE IF a.c = b.c THEN a
    ELSE NaN

FSub(a, b) == FAdd(a, FNeg(b))

\* a <= b on doubles: false when either is nan
FLe(a, b) ==
    IF a.c = 2 \/ b.c = 2 THEN FALSE
    ELSE IF a.c = 0 /\ b.c = 0 THEN a.v <= b.v
    ELSE IF a.c = b.c THEN TRUE
    ELSE IF a.c = -1 \/ b.c = 1 THEN TRUE
    ELSE FALSE

\* np.maximum(a, b): nan propagates
FMaximum(a, b) ==
    IF a.c = 2 \/ b.c = 2 THEN NaN
    ELSE IF FLe(a, b) THEN b ELSE a

\* floor(a * b / c) for c > 0 without leaving 32 bits: <<quotient, remainder>>
RECURSIVE MulDivQR(_, _, _)
MulDivQR(a, b, c) ==
    IF b = 0 THEN <<0, 0>>
    ELSE LET h  == MulDivQR(a, b \div 2, c)
             q2 == 2 * h[1] + (2 * h[2]) \div c
             r2 == (2 * h[2]) % c
         IN  IF b % 2 = 0 THEN <<q2, r2>>
             ELSE <<q2 + (a \div c) + (r2 + (a % c)) \div c, (r2 + (a % c)) % c>>

MulDiv(a, b, c) ==
    IF b >= 0 THEN MulDivQR(a, b, c)[1] ELSE MulDivQR(-a, -b, c)[1]

\* ln 2 in LScale units
LN2 == MulDiv(693147, LScale, 1000000)

\* the product of two doubles held on grids whose scales multiply to s * (result scale)
FMulDiv(a, b, s) ==
    IF a.c = 2 \/ b.c = 2 THEN NaN
    ELSE IF a.c = 0 /\ b.c = 0 THEN Fin(MulDiv(a.v, b.v, s))
    ELSE IF Sgn(a) = 0 \/ Sgn(b) = 0 THEN NaN
    ELSE IF Sgn(a) = Sgn(b) THEN PInf ELSE NInf

\* floor(a * 2^bits / c) for 0 <= a < c
RECURSIVE Frac(_, _, _)
Frac(a, c, bits) ==
    IF bits = 0 THEN 0
    ELSE IF 2 * a >= c THEN 2 ^ (bits - 1) + Frac(2 * a - c, c, bits - 1)
    ELSE Frac(2 * a, c, bits - 1)

\* ln(n / d) for d <= n < 2 d, in LScale units: 2 atanh((n - d) / (n + d))
LnMant(n, d) ==
    LET z  == Frac(n - d, n + d, 15)
        z2 == (z * z) \div LScale
        t3 == (z * z2) \div LScale
        t5 == (t3 * z2) \div LScale
        t7 == (t5 * z2) \div LScale
        t9 == (t7 * z2) \div LScale
    IN  2 * (z + t3 \div 3 + t5 \div 5 + t7 \div 7 + t9 \div 9)

\* ln(n / d) for 0 < d <= n, in LScale units
RECURSIVE LnGE(_, _)
LnGE(n, d) == IF 2 * d <= n THEN LN2 + LnGE(n, 2 * d) ELSE LnMant(n, d)

\* np.log of the ratio n / d (d > 0): -inf at 0, nan below 0
Log(n, d) ==
    IF n < 0 THEN NaN
    ELSE IF n = 0 THEN NInf
    ELSE IF n >= d THEN Fin(LnGE(n, d))
    ELSE Fin(-LnGE(d, n))

\* floor of the square root
RECURSIVE Isqrt(_)
Isqrt(n) ==
    IF n < 2 THEN n
    ELSE LET s == 2 * Isqrt(n \div 4)
         IN  IF (s + 1) * (s + 1) <= n THEN s + 1 ELSE s

Min(a, b) == IF a <= b THEN a ELSE b

(***************************************************************************)
(* Current densities beyond the fine grid.                                 *)
(***************************************************************************)
HugeBase == 2 ^ 30

\* the double is one of the multiples of 2^41 A/cm^2
IsHuge(x) == x > HugeBase

\* which multiple of 2^41 A/cm^2
HugeCount(x) == x - HugeBase

\* x - 1e-4 in doubles: exact on the fine grid; from 2^41 up the doubles below x
\* are at least 2^-12 apart, 1e-4 is less than half of that, and the difference
\* rounds to x
minus_guard(x) == IF IsHuge(x) THEN x ELSE x - IScale \div 10000

\* 1 - i_safe / i_limit as the ratio <<numerator, denominator>> (i_limit > 0).
\* With i_limit huge and i_safe on the fine grid the quotient is below 2^-36 and
\* the logarithm of the difference is 0 on the grid of np.log.
log_argument(i_safe, i_limit) ==
    IF ~IsHuge(i_limit) THEN <<i_limit - i_safe, i_limit>>
    ELSE IF IsHuge(i_safe)
         THEN <<HugeCount(i_limit) - HugeCount(i_safe), HugeCount(i_limit)>>
         ELSE <<1, 1>>

(***************************************************************************)
(* 1. Physical constants and parameters.                                   *)
(***************************************************************************)
FuelCellParameters(T_kelvin, P_H2_atm, P_O2_atm) ==
    [ R               |-> (8314 * RScale) \div 1000,
      F               |-> 96485,
      T               |-> T_kelvin,
      P_H2            |-> P_H2_atm,
      P_O2            |-> P_O2_atm,
      alpha           |-> (5 * AScale) \div 10,
      area_resistance |-> (2 * RScale) \div 10,
      i_limit         |-> (18 * IScale) \div 10 ]

\* the object before __init__ has run
NoParams ==
    [ R |-> 0, F |-> 0, T |-> 0, P_H2 |-> 0, P_O2 |-> 0,
      alpha |-> 0, area_resistance |-> 0, i_limit |-> 0 ]

(***************************************************************************)
(* 2. Physics equations.                                                   *)
(***************************************************************************)
\* E0 - 0.85e-3 * (T - 298.15) + (R T / 2F) * ln(P_H2 * P_O2 ** 0.5)
calc_nernst_voltage(params) ==
    LET E0            == (1229 * VScale) \div 1000
        E_standard_T  == E0 - MulDiv(85 * (100 * params.T - 29815), VScale, 10000000)
        sqrt_P_O2     == Isqrt(params.P_O2 * PScale)
        term_pressure ==
            FMulDiv(Fin(MulDiv(params.R * params.T, VScale \div RScale, 2 * params.F)),
                    Log((params.P_H2 * sqrt_P_O2) \div PScale, PScale),
                    LScale)
    IN  FAdd(Fin(E_standard_T), term_pressure)

\* (R T) / (2 alpha F) divides by zero when alpha is 0: Python raises ZeroDivisionError
tafel_raises(params) == 2 * params.alpha * params.F = 0

\* max(0, (R T / 2 alpha F) * ln((i + 1e-6) / i0)), i0 = 1e-3
calc_activation_loss(i, params) ==
    LET i0         == IScale \div 1000
        term_tafel == MulDiv(params.R * params.T, (VScale * AScale) \div RScale,
                             2 * params.alpha * params.F)
        v_act      == FMulDiv(Fin(term_tafel), Log(i + IScale \div 1000000, i0), LScale)
    IN  FMaximum(Fin(0), v_act)

\* i * area_resistance
calc_ohmic_loss(i, params) ==
    Fin(MulDiv(i, params.area_resistance, (IScale \div VScale) * RScale))

\* np.minimum(i, i_limit - 1e-4)
i_safe_of(i, params) == Min(i, minus_guard(params.i_limit))

\* -(R T / 2F) * ln(1 - i_safe / i_limit)
calc_concentration_loss(i, params) ==
    LET i_safe    == i_safe_of(i, params)
        term_conc == MulDiv(params.R * params.T, VScale \div RScale, 2 * params.F)
        arg       == log_argument(i_safe, params.i_limit)
    IN  FMulDiv(Fin(-term_conc), Log(arg[1], arg[2]), LScale)

(***************************************************************************)
(* 3. Main simulation loop.                                                *)
(***************************************************************************)
\* np.linspace(start, stop, num): start + k * step, the last sample set to stop
linspace(start, stop, num) ==
    [k \in 1..num |->
        IF k = num THEN stop ELSE start + MulDiv(stop - start, k - 1, num - 1)]

\* np.linspace(0.001, params.i_limit - 0.05, 100)
sweep_range(params) ==
    linspace(IScale \div 1000, params.i_limit - IScale \div 20, NumSamples)

\* the concentration loss added where it is subtracted
cell_voltage_adds_conc(E_nernst, v_act, v_ohmic, v_conc) ==
    [k \in 1..Len(v_act) |->
        FAdd(FSub(FSub(E_nernst, v_act[k]), v_ohmic[k]), v_conc[k])]

\* E_nernst - v_act - v_ohmic - v_conc, elementwise
cell_voltage(E_nernst, v_act, v_ohmic, v_conc) ==
    [k \in 1..Len(v_act) |->
        FSub(FSub(FSub(E_nernst, v_act[k]), v_ohmic[k]), v_conc[k])]

\* the voltage at index k multiplied by the current density of the mirrored index
power_density_misaligned(v_cell, current_density) ==
    [k \in 1..Len(v_cell) |->
        FMulDiv(v_cell[k], Fin(current_density[Len(v_cell) + 1 - k]), IScale)]

\* v_cell * current_density, elementwise
power_density(v_cell, current_density) ==
    [k \in 1..Len(v_cell) |-> FMulDiv(v_cell[k], Fin(current_density[k]), IScale)]

\* what simulate_fuel_cell returns, with its local E_nernst
simulate_fuel_cell(params) ==
    LET current_density == sweep_range(params)
        E_nernst == calc_nernst_voltage(params)
        v_act    == [k \in 1..Len(current_density) |->
                        calc_activation_loss(current_density[k], params)]
        v_ohmic  == [k \in 1..Len(current_density) |->
                        calc_ohmic_loss(current_density[k], params)]
        v_conc   == [k \in 1..Len(current_density) |->
                        calc_concentration_loss(current_density[k], params)]
        v_cell   == cell_voltage(E_nernst, v_act, v_ohmic, v_conc)
        p_cell   == power_density(v_cell, current_density)
    IN  [ current_density |-> current_density, v_cell |-> v_cell, p_cell |-> p_cell,
          v_act |-> v_act, v_ohmic |-> v_ohmic, v_conc |-> v_conc,
          E_nernst |-> E_nernst ]

\* the script's i, v, p, losses before the sweep has returned
NoResult ==
    [ current_density |-> <<>>, v_cell |-> <<>>, p_cell |-> <<>>,
      v_act |-> <<>>, v_ohmic |-> <<>>, v_conc |-> <<>>, E_nernst |-> Fin(0) ]

Abs(x) == IF x < 0 THEN -x ELSE x

\* np.abs(seq - x).argmin(): the first index of the smallest distance
argmin_abs(seq, x) ==
    CHOOSE k \in 1..Len(seq) :
        /\ \A j \in 1..Len(seq) : Abs(seq[k] - x) <= Abs(seq[j] - x)
        /\ \A j \in 1..(k - 1) : Abs(seq[k] - x) < Abs(seq[j] - x)

(***************************************************************************)
(* Inputs.                                                                 *)
(***************************************************************************)
MaxK == 4

TempInputs == {0, 300, 353}
PressureH2Inputs == {0, PScale, 3 * PScale}
PressureO2Inputs == {PScale, 3 * PScale}
AlphaInputs == {0, AScale \div 2, AScale}
ResistanceInputs == {0, RScale \div 5}
\* 0.00005, 0.05, 1.8 and 2^42 A/cm^2
LimitInputs == {IScale \div 20000, IScale \div 20, (18 * IScale) \div 10, HugeBase + 2}

\* half of a current density
half(x) == IF IsHuge(x) THEN HugeBase + HugeCount(x) \div 2 ELSE x \div 2

\* current densities calc_concentration_loss is called with: a grid of half
\* amperes, the points around the two guards, and points below, at and beyond
\* the limit
CurrentInputs(params) ==
    {k * (IScale \div 2) : k \in 0..MaxK}
        \cup {1, -(IScale \div 1000000), IScale \div 1000 - IScale \div 1000000,
              half(params.i_limit), minus_guard(params.i_limit), params.i_limit,
              params.i_limit + 1}

\* current densities the other calculators are called with: those on the fine grid
FineInputs(params) == {i \in CurrentInputs(params) : ~IsHuge(i)}

NoCall == [fn |-> "none", arg |-> 0, val |-> Fin(0)]

(***************************************************************************)
(* The run.                                                                *)
(***************************************************************************)
Init ==
    /\ pc = "start"
    /\ my_fc = NoParams
    /\ ret = NoCall
    /\ result = NoResult
    /\ idx = 0
    /\ report = <<>>
    /\ err = "none"

\* my_fc = FuelCellParameters(T_kelvin=..., P_H2_atm=..., P_O2_atm=...)
Construct(T_kelvin, P_H2_atm, P_O2_atm) ==
    /\ pc = "start"
    /\ my_fc' = FuelCellParameters(T_kelvin, P_H2_atm, P_O2_atm)
    /\ pc' = "constructed"
    /\ UNCHANGED <<ret, result, idx, report, err>>

\* the cell specifics are tunable parameters: set on the object before the study
TuneAlpha(a) ==
    /\ pc = "constructed"
    /\ ret = NoCall
    /\ my_fc' = [my_fc EXCEPT !.alpha = a]
    /\ UNCHANGED <<pc, ret, result, idx, report, err>>

TuneResistance(r) ==
    /\ pc = "constructed"
    /\ ret = NoCall
    /\ my_fc' = [my_fc EXCEPT !.area_resistance = r]
    /\ UNCHANGED <<pc, ret, result, idx, report, err>>

TuneLimit(l) ==
    /\ pc = "constructed"
    /\ ret = NoCall
    /\ my_fc' = [my_fc EXCEPT !.i_limit = l]
    /\ UNCHANGED <<pc, ret, result, idx, report, err>>

\* the exception swallowed: the run goes on to the report
Raise_swallowed(e) ==
    /\ pc' = "swept"
    /\ err' = e
    /\ UNCHANGED <<my_fc, ret, result, idx, report>>

\* an uncaught exception ends the run
Raise(e) ==
    /\ pc' = "failed"
    /\ err' = e
    /\ UNCHANGED <<my_fc, ret, result, idx, report>>

CallNernst ==
    /\ pc = "constructed"
    /\ ret' = [fn |-> "nernst", arg |-> 0, val |-> calc_nernst_voltage(my_fc)]
    /\ UNCHANGED <<pc, my_fc, result, idx, report, err>>

CallActivation(i) ==
    /\ pc = "constructed"
    /\ IF tafel_raises(my_fc)
       THEN Raise("ZeroDivisionError")
       ELSE /\ ret' = [fn |-> "activation", arg |-> i,
                       val |-> calc_activation_loss(i, my_fc)]
            /\ UNCHANGED <<pc, my_fc, result, idx, report, err>>

CallOhmic(i) ==
    /\ pc = "constructed"
    /\ ret' = [fn |-> "ohmic", arg |-> i, val |-> calc_ohmic_loss(i, my_fc)]
    /\ UNCHANGED <<pc, my_fc, result, idx, report, err>>

CallConcentration(i) ==
    /\ pc = "constructed"
    /\ ret' = [fn |-> "concentration", arg |-> i,
               val |-> calc_concentration_loss(i, my_fc)]
    /\ UNCHANGED <<pc, my_fc, result, idx, report, err>>

\* the sweep writing its clamped limit back into the parameter object
Simulate_clamps_params ==
    /\ pc = "constructed"
    /\ ret = NoCall
    /\ ~IsHuge(my_fc.i_limit)
    /\ ~tafel_raises(my_fc)
    /\ pc' = "swept"
    /\ ret' = [fn |-> "simulate", arg |-> 0, val |-> Fin(0)]
    /\ result' = simulate_fuel_cell(my_fc)
    /\ my_fc' = [my_fc EXCEPT !.i_limit = my_fc.i_limit - IScale \div 20]
    /\ UNCHANGED <<idx, report, err>>

\* i, v, p, losses = simulate_fuel_cell(my_fc): the script's first call on the
\* object it has set up; the sweep is taken for limiting currents on the fine grid
Simulate ==
    /\ pc = "constructed"
    /\ ret = NoCall
    /\ ~IsHuge(my_fc.i_limit)
    /\ IF tafel_raises(my_fc)
       THEN Raise("ZeroDivisionError")
       ELSE /\ pc' = "swept"
            /\ ret' = [fn |-> "simulate", arg |-> 0, val |-> Fin(0)]
            /\ result' = simulate_fuel_cell(my_fc)
            /\ UNCHANGED <<my_fc, idx, report, err>>

\* the polarization and power curves are drawn on the figure
Plot ==
    /\ pc = "swept"
    /\ report' = Append(report, "plot")
    /\ pc' = "plotted"
    /\ UNCHANGED <<my_fc, ret, result, idx, err>>

\* the breakdown at the sample nearest 1.0 A/cm^2 is printed
PrintBreakdown ==
    /\ pc = "plotted"
    /\ idx' = argmin_abs(result.current_density, IScale)
    /\ report' = Append(report, "print")
    /\ pc' = "printed"
    /\ UNCHANGED <<my_fc, ret, result, err>>

\* plt.show()
Show ==
    /\ pc = "printed"
    /\ report' = Append(report, "show")
    /\ pc' = "shown"
    /\ UNCHANGED <<my_fc, ret, result, idx, err>>

Next ==
    \/ \E T \in TempInputs, ph \in PressureH2Inputs, po \in PressureO2Inputs :
           Construct(T, ph, po)
    \/ \E a \in AlphaInputs : TuneAlpha(a)
    \/ \E r \in ResistanceInputs : TuneResistance(r)
    \/ \E l \in LimitInputs : TuneLimit(l)
    \/ CallNernst
    \/ \E i \in FineInputs(my_fc) : CallActivation(i)
    \/ \E i \in FineInputs(my_fc) : CallOhmic(i)
    \/ \E i \in CurrentInputs(my_fc) : CallConcentration(i)
    \/ Simulate
    \/ Plot
    \/ PrintBreakdown
    \/ Show

Spec == Init /\ [][Next]_vars

(***************************************************************************)
(* Properties.                                                             *)
(***************************************************************************)
\* the documented domain of a Parameter Set
ValidParams(p) ==
    /\ p.T > 0
    /\ p.P_H2 > 0
    /\ p.P_O2 > 0
    /\ 0 < p.alpha /\ p.alpha <= AScale
    /\ p.area_resistance >= 0
    /\ p.i_limit > 0

\* simulate_fuel_cell has returned
Swept == pc \in {"swept", "plotted", "printed", "shown"}

Samples == 1..Len(result.current_density)

\* C1: for every valid Parameter Set, every current-density sample of the sweep
\* lies strictly inside (0, i_limit).
C1_SamplesInsideLimit ==
    (Swept /\ ValidParams(my_fc)) =>
        \A k \in Samples :
            /\ 0 < result.current_density[k]
            /\ result.current_density[k] < my_fc.i_limit

\* C2: at every sample index the net voltage is the one Nernst voltage minus the
\* activation, ohmic and concentration losses returned for the same index.
C2_NetVoltageIsNernstMinusLosses ==
    Swept =>
        /\ result.E_nernst = calc_nernst_voltage(my_fc)
        /\ Len(result.v_cell) = Len(result.current_density)
        /\ \A k \in Samples :
               result.v_cell[k] =
                   FSub(FSub(FSub(result.E_nernst, result.v_act[k]),
                             result.v_ohmic[k]),
                        result.v_conc[k])

\* a sweep in which some sample has three finite, positive losses
C2_Witness ==
    /\ Swept
    /\ \E k \in Samples :
           /\ IsFin(result.v_cell[k])
           /\ result.v_act[k].v > 0
           /\ result.v_ohmic[k].v > 0
           /\ result.v_conc[k].v > 0

\* C3: for every valid Parameter Set and every current density in (0, i_limit),
\* each of the three losses is non-negative, and the activation loss is 0
\* whenever i + 1e-6 <= i0 = 1e-3.
C3_LossesNonNegative ==
    ( /\ ret.fn \in {"activation", "ohmic", "concentration"}
      /\ ValidParams(my_fc)
      /\ 0 < ret.arg /\ ret.arg < my_fc.i_limit ) =>
        /\ FLe(Fin(0), ret.val)
        /\ (ret.fn = "activation"
              /\ ret.arg + IScale \div 1000000 <= IScale \div 1000)
               => ret.val = Fin(0)

\* C4: calc_concentration_loss saturates: for every valid Parameter Set and
\* every input, the clamped current keeps the logarithm's argument strictly
\* positive, nothing is raised, the result is finite, and every input at or
\* beyond i_limit - 1e-4 gives the result of i_limit - 1e-4.
C4_ConcentrationSaturates ==
    (ret.fn = "concentration" /\ ValidParams(my_fc)) =>
        /\ log_argument(i_safe_of(ret.arg, my_fc), my_fc.i_limit)[1] > 0
        /\ err = "none"
        /\ IsFin(ret.val)
        /\ ret.arg >= minus_guard(my_fc.i_limit)
               => ret.val = calc_concentration_loss(minus_guard(my_fc.i_limit), my_fc)

\* C5: a Parameter Set with a field outside its documented domain is refused
\* at construction with InvalidParameter, so nothing runs on it.
C5_InvalidParametersRejected ==
    (pc # "start" /\ ~ValidParams(my_fc)) =>
        (pc = "failed" /\ err = "InvalidParameter")

\* C6: the six sequences simulate_fuel_cell returns have the length of the
\* sweep, 100, and at every index each holds the value computed from the
\* current density at that index.
C6_SequencesAligned ==
    Swept =>
        /\ Len(result.current_density) = NumSamples
        /\ Len(result.v_cell) = NumSamples
        /\ Len(result.p_cell) = NumSamples
        /\ Len(result.v_act) = NumSamples
        /\ Len(result.v_ohmic) = NumSamples
        /\ Len(result.v_conc) = NumSamples
        /\ \A k \in 1..NumSamples :
               LET i == result.current_density[k]
                   a == calc_activation_loss(i, my_fc)
                   o == calc_ohmic_loss(i, my_fc)
                   c == calc_concentration_loss(i, my_fc)
                   v == FSub(FSub(FSub(calc_nernst_voltage(my_fc), a), o), c)
               IN  /\ result.v_act[k] = a
                   /\ result.v_ohmic[k] = o
                   /\ result.v_conc[k] = c
                   /\ result.v_cell[k] = v
                   /\ result.p_cell[k] = FMulDiv(v, Fin(i), IScale)

\* a sweep of 100 samples whose power is not the same at both ends
C6_Witness ==
    /\ Swept
    /\ Len(result.p_cell) = NumSamples
    /\ result.current_density[1] # result.current_density[NumSamples]
    /\ IsFin(result.p_cell[1])
    /\ IsFin(result.p_cell[NumSamples])
    /\ result.p_cell[1] # result.p_cell[NumSamples]

\* C7: for every valid Parameter Set the current-density sequence is strictly
\* increasing, from 0.001 to i_limit - 0.05.
C7_SamplesIncreasing ==
    (Swept /\ ValidParams(my_fc)) =>
        /\ \A k \in 1..(Len(result.current_density) - 1) :
               result.current_density[k] < result.current_density[k + 1]
        /\ result.current_density[1] = IScale \div 1000
        /\ result.current_density[Len(result.current_density)]
               = my_fc.i_limit - IScale \div 20

\* a step in which a call returns (ret records it), the sweep returns, or a call
\* raises
CallStep ==
    \/ ret' # ret
    \/ pc' \in {"swept", "failed"} /\ pc' # pc

\* C8: no call of calc_nernst_voltage, calc_activation_loss, calc_ohmic_loss,
\* calc_concentration_loss or simulate_fuel_cell changes a field of the
\* Parameter Set, and the constants R and F stay as the constructor set them.
C8_ParametersReadOnly ==
    [][ /\ CallStep => my_fc' = my_fc
        /\ pc # "start" => (my_fc'.R = my_fc.R /\ my_fc'.F = my_fc.F) ]_vars

\* the whole run done on a constructed object: sweep and report
C8_Witness ==
    /\ pc = "shown"
    /\ ret.fn = "simulate"
    /\ my_fc.R = (8314 * RScale) \div 1000
    /\ my_fc.F = 96485

\* C9: a report step happens only after the sweep has returned, and a run that
\* failed has no report step at all.
C9_ReportOnlyAfterSweep ==
    /\ report # <<>> =>
           /\ Swept
           /\ err = "none"
           /\ Len(result.v_cell) = NumSamples
    /\ pc = "failed" =>
           /\ report = <<>>
           /\ idx = 0
           /\ result = NoResult
    /\ pc \in {"plotted", "printed", "shown"} => report # <<>>

\* the sweep failed on its division by zero and nothing was reported
C9_Witness ==
    /\ pc = "failed"
    /\ err = "ZeroDivisionError"
    /\ ret = NoCall
    /\ report = <<>>

\* C10: for every valid Parameter Set no sample's net voltage exceeds the
\* open-circuit voltage.
C10_VoltageBelowNernst ==
    (Swept /\ ValidParams(my_fc)) =>
        \A k \in Samples : FLe(result.v_cell[k], result.E_nernst)

====
